---- MODULE Spec2Model ----
(***************************************************************************)
(* A model of the precinct-returns release pipeline of the medsl package:  *)
(* PrecinctData.read_precinct_csv / read_precincts (release.py), Dataset   *)
(* construction, release and check_documentation (release.py), and the     *)
(* pre-release checks of validate.py.                                      *)
(*                                                                         *)
(* A DataFrame is a record [columns, index, rows]: the ordered column      *)
(* labels, the row labels, and the rows, each row a function from the      *)
(* column labels to cell values.  Cell values are strings; a missing cell  *)
(* is the value NaN.                                                       *)
(***************************************************************************)
EXTENDS Integers, Sequences, FiniteSets, TLC

\* ------------------------------------------------------------------ bounds
\* Largest number of regions (state postal codes) requested in one run.
MaxRegions == 2
\* Largest number of rows read over all region files of one run.
MaxRows == 2
\* Largest number of Dataset constructions and releases in one run.
MaxOps == 3
\* How many of the dataverses, in the order of DATAVERSE_SHORT_NAMES, a run
\* constructs datasets of.
MaxTargets == 2
\* The rows of a validated table, at most.
MaxCheckRows == 2
\* The rows of the argument of _compare_aggregates, at most.
MaxPrecinctRows == 2
\* The rows of a file of constituency returns, at most.
MaxReturnRows == 2

\* --------------------------------------------------------------- constants
NaN == "NaN"
NoError == "none"

DATAVERSE_SHORT_NAMES == <<"president", "senate", "house", "state", "local">>

PRECINCT_COLS ==
  << "year", "stage", "special",
     "state", "state_postal", "state_fips", "state_icpsr",
     "county_name", "county_fips", "county_ansi", "county_lat", "county_long",
     "jurisdiction", "precinct",
     "candidate", "candidate_last", "candidate_first", "candidate_middle",
     "candidate_full", "candidate_suffix", "candidate_nickname", "candidate_fec",
     "candidate_fec_name", "candidate_google", "candidate_govtrack",
     "candidate_icpsr", "candidate_maplight", "candidate_normalized",
     "candidate_opensecrets", "candidate_wikidata", "candidate_party",
     "office", "district", "writein", "party", "mode", "votes",
     "dataverse" >>

\* A variant of the sort key without the candidate.
sort_order_no_candidate == <<"dataverse", "state", "jurisdiction", "precinct", "party">>

\* The sort key of read_precincts.
sort_order == <<"dataverse", "state", "jurisdiction", "precinct", "candidate", "party">>

\* ----------------------------------------------------------------- helpers
Range(s) == {s[i] : i \in 1..Len(s)}

SeqsUpTo(S, n) == UNION {[1..k -> S] : k \in 0..n}

RECURSIVE SelectIdx(_, _, _)
\* The subsequence of s at the positions in keep, in order.
SelectIdx(s, keep, i) ==
  IF i > Len(s) THEN <<>>
  ELSE (IF i \in keep THEN <<s[i]>> ELSE <<>>) \o SelectIdx(s, keep, i + 1)

RECURSIVE Flatten(_)
Flatten(ss) == IF ss = <<>> THEN <<>> ELSE Head(ss) \o Flatten(Tail(ss))

\* The multiset of the elements of a sequence, as a function value -> count.
BagOf(s) == [v \in Range(s) |-> Cardinality({i \in 1..Len(s) : s[i] = v})]

\* ------------------------------------------------------------- DataFrames
EmptyFrame == [columns |-> <<>>, index |-> <<>>, rows |-> <<>>]

NoFrame == [columns |-> <<>>, index |-> <<>>, rows |-> <<>>, none |-> TRUE]

\* Python's string order on the cell values the model uses (code point order).
StrUniverse ==
  << "-", "1", "2", "2016", "Alabama", "Alaska", "Doe", "all", "president", "senate", "x" >>

StrRank(v) == CHOOSE i \in 1..Len(StrUniverse) : StrUniverse[i] = v

\* sort_values factorizes each key column into ordered codes; a missing value
\* gets the code after the last category (na_position = 'last').
KeyCode(v) == IF v = NaN THEN Len(StrUniverse) + 1 ELSE StrRank(v)

KeyCodes(row, keys) == [k \in 1..Len(keys) |-> KeyCode(row[keys[k]])]

\* Lexicographic order of two code vectors of the same length.
CodesLess(a, b) ==
  \E k \in 1..Len(a) : a[k] < b[k] /\ \A j \in 1..(k - 1) : a[j] = b[j]

CodesLeq(a, b) == a = b \/ CodesLess(a, b)

\* pd.concat(frames): every row of every frame, in list order, over the union
\* of the frames' columns (a cell of a column its frame lacks is NaN); the row
\* labels are kept as they are.
RECURSIVE ConcatColumns(_, _)
ConcatColumns(frames, acc) ==
  IF frames = <<>> THEN acc
  ELSE LET have == Range(acc)
       IN  ConcatColumns(Tail(frames),
                         acc \o SelectSeq(Head(frames).columns, LAMBDA c : c \notin have))

Reindexed(row, colset) ==
  LET have == DOMAIN row
  IN  IF have = colset THEN row
      ELSE [c \in colset |-> IF c \in have THEN row[c] ELSE NaN]

\* A variant of concat that keeps one row of each set of equal rows.
concat_drop_duplicates(frames) ==
  LET cols   == ConcatColumns(frames, <<>>)
      colset == Range(cols)
      rows   == Flatten([i \in 1..Len(frames) |->
                  [k \in 1..Len(frames[i].rows) |-> Reindexed(frames[i].rows[k], colset)]])
      keep   == {i \in 1..Len(rows) : \A j \in 1..(i - 1) : rows[j] # rows[i]}
  IN  [columns |-> cols,
       index   |-> SelectIdx(Flatten([i \in 1..Len(frames) |-> frames[i].index]), keep, 1),
       rows    |-> SelectIdx(rows, keep, 1)]

concat(frames) ==
  LET cols   == ConcatColumns(frames, <<>>)
      colset == Range(cols)
  IN  [columns |-> cols,
       index   |-> Flatten([i \in 1..Len(frames) |-> frames[i].index]),
       rows    |-> Flatten([i \in 1..Len(frames) |->
                     [k \in 1..Len(frames[i].rows) |-> Reindexed(frames[i].rows[k], colset)]])]

\* df[cols]: the KeyError of selecting a column the frame does not have.
MissingLabels(df, cols) == Range(cols) \ Range(df.columns)

\* df[cols]: the frame restricted to cols, in the order of cols.
Restrict(row, colset) ==
  IF DOMAIN row = colset THEN row ELSE [c \in colset |-> row[c]]

Project(df, cols) ==
  LET colset == Range(cols)
  IN  [columns |-> cols,
       index   |-> df.index,
       rows    |-> [k \in 1..Len(df.rows) |-> Restrict(df.rows[k], colset)]]

\* df.sort_values(keys) on several keys: a stable sort on the code vectors, so
\* rows with equal keys keep their relative order.
SortPosition(codes, i) ==
  Cardinality({j \in 1..Len(codes) : CodesLess(codes[j], codes[i])})
  + Cardinality({j \in 1..i : codes[j] = codes[i]})

SortIndexer(rows, keys) ==
  LET codes == [j \in 1..Len(rows) |-> KeyCodes(rows[j], keys)]
      pos   == [i \in 1..Len(rows) |-> SortPosition(codes, i)]
  IN  [p \in 1..Len(rows) |-> CHOOSE i \in 1..Len(rows) : pos[i] = p]

\* A variant of sort_values whose result is not used.
sort_values_discarded(df, keys) == df

sort_values(df, keys) ==
  LET ix == SortIndexer(df.rows, keys)
  IN  [columns |-> df.columns,
       index   |-> [p \in 1..Len(df.rows) |-> df.index[ix[p]]],
       rows    |-> [p \in 1..Len(df.rows) |-> df.rows[ix[p]]]]

\* PrecinctData.read_precincts, after the region files are read: concatenate,
\* select and reorder the columns, sort the rows.  The result is the frame, or
\* the error raised on the way.
read_precincts(frames) ==
  IF frames = <<>>
  THEN [error |-> "ValueError: No objects to concatenate", frame |-> NoFrame]
  ELSE LET all == concat(frames)
       IN  IF MissingLabels(all, PRECINCT_COLS) # {}
           THEN [error |-> "KeyError: not in index", frame |-> NoFrame]
           ELSE [error |-> NoError,
                 frame |-> sort_values(Project(all, PRECINCT_COLS), sort_order)]

\* ------------------------------------------------------------ region files
\* The rows the model's region files are made of: <<dataverse, state,
\* candidate, party, votes>>; the other cells hold "-".
RowSeeds ==
  { <<"all", "Alaska", NaN, "-", "1">>,
    <<"all", "Alaska", NaN, "-", "2">>,
    <<"all", "Alaska", "Doe", "-", "1">>,
    <<"president", "Alabama", "Doe", "-", "1">> }

MkRow(cols, seed) ==
  [c \in Range(cols) |->
     CASE c = "dataverse" -> seed[1]
       [] c = "state"     -> seed[2]
       [] c = "candidate" -> seed[3]
       [] c = "party"     -> seed[4]
       [] c = "votes"     -> seed[5]
       [] c = "year"      -> "2016"
       [] c = "foo"       -> "x"
       [] OTHER           -> "-"]

\* The column layouts of the model's region files: the canonical one, and one
\* with another order and a column PRECINCT_COLS does not name.
FileLayouts ==
  { PRECINCT_COLS,
    <<"foo", "dataverse">> \o SubSeq(PRECINCT_COLS, 1, Len(PRECINCT_COLS) - 1) }

\* What pd.read_csv yields for a file of the given layout and rows
\* (index_col=False: the row labels are 0, 1, ...).
MkFrame(cols, seeds) ==
  [columns |-> cols,
   index   |-> [k \in 1..Len(seeds) |-> k - 1],
   rows    |-> [k \in 1..Len(seeds) |-> MkRow(cols, seeds[k])]]

\* A region file, by what reading it does: whether it exists, how the typed
\* read ends under the default encoding and under latin1, how the read of the
\* header alone ends, and the frame a typed read that succeeds returns.
MkFile(exists, utf8, latin1, header, frame) ==
  [exists |-> exists, utf8 |-> utf8, latin1 |-> latin1, header |-> header,
   frame |-> frame]

AbsentFile ==
  MkFile(FALSE, "FileNotFoundError", "FileNotFoundError", "FileNotFoundError", EmptyFrame)

\* The files whose read fails: a cell that cannot be coerced to its column's
\* type, the same behind bytes that are not UTF-8, and a file of no bytes.
BrokenFiles ==
  {MkFile(TRUE, "ValueError", "ValueError", "ok", EmptyFrame),
   MkFile(TRUE, "UnicodeDecodeError", "ValueError", "ok", EmptyFrame),
   MkFile(TRUE, "EmptyDataError", "EmptyDataError", "EmptyDataError", EmptyFrame)}

\* The region files of the model with at most `left` rows: no file, a broken
\* file, a file of the header alone, and the files of one row or more in
\* either layout or in bytes that only latin1 decodes.
FilePool(left) ==
  {AbsentFile, MkFile(TRUE, "ok", "ok", "ok", MkFrame(PRECINCT_COLS, <<>>))}
  \cup BrokenFiles
  \cup {MkFile(TRUE, "ok", "ok", "ok", MkFrame(cols, seeds)) :
          cols \in FileLayouts, seeds \in SeqsUpTo(RowSeeds, left) \ {<<>>}}
  \cup {MkFile(TRUE, "UnicodeDecodeError", "ok", "ok", MkFrame(PRECINCT_COLS, seeds)) :
          seeds \in SeqsUpTo(RowSeeds, left) \ {<<>>}}

\* pd.read_csv(csv_path, dtype=PRECINCT_COLS, encoding=...): "ok" or the
\* exception raised.
TypedRead(file, encoding) ==
  IF ~file.exists THEN "FileNotFoundError"
  ELSE IF encoding = "latin1" THEN file.latin1
  ELSE file.utf8

\* pd.read_csv(csv_path, nrows=0)
HeaderRead(file) == IF ~file.exists THEN "FileNotFoundError" ELSE file.header

\* Python's exception classes: UnicodeDecodeError and pandas' EmptyDataError
\* are subclasses of ValueError.
IsInstance(e, cls) ==
  e = cls \/ (cls = "ValueError" /\ e \in {"UnicodeDecodeError", "EmptyDataError"})

\* The except clauses of read_precinct_csv, in their order.
ExceptClauses == <<"UnicodeDecodeError", "FileNotFoundError", "ValueError">>

\* The first except clause that matches the exception.
Handler(e, clauses) ==
  LET hit == {i \in 1..Len(clauses) : IsInstance(e, clauses[i])}
  IN  clauses[CHOOSE i \in hit : \A j \in hit : i <= j]

\* An exception on its way to the caller: its class and the read that raised it.
Raised(type, from) == [type |-> type, from |-> from]

NotRaised == Raised(NoError, "-")

\* except UnicodeDecodeError: read again as latin1; an exception of this read
\* is not handled.
OnUnicodeDecodeError(file) ==
  LET retry == TypedRead(file, "latin1")
  IN  [raised |-> IF retry = "ok" THEN NotRaised ELSE Raised(retry, "typed_latin1"),
       df     |-> IF retry = "ok" THEN file.frame ELSE NoFrame,
       reads  |-> <<"typed", "typed_latin1">>]

\* except FileNotFoundError: log, and go on with a frame of no rows and no columns.
OnFileNotFoundError(file) ==
  [raised |-> NotRaised, df |-> EmptyFrame, reads |-> <<"typed">>]

\* A variant of the ValueError clause that ends without `raise e`.
OnValueErrorSwallowed(file, e) ==
  [raised |-> NotRaised, df |-> EmptyFrame, reads |-> <<"typed", "header">>]

\* except ValueError as e: read the header alone to log the column names, then
\* raise e; an exception of the header read takes its place.

OnValueError(file, e) ==
  LET headers == HeaderRead(file)
  IN  [raised |-> IF headers = "ok" THEN Raised(e, "typed") ELSE Raised(headers, "header"),
       df     |-> NoFrame,
       reads  |-> <<"typed", "header">>]

\* PrecinctData.read_precinct_csv: the result (the frame returned or the
\* exception raised), the reads done, and how the first typed read ended.
read_precinct_csv(file) ==
  LET first == TypedRead(file, "utf8")
      h     == IF first = "ok" THEN "-" ELSE Handler(first, ExceptClauses)
      r     == CASE first = "ok" ->
                      [raised |-> NotRaised, df |-> file.frame, reads |-> <<"typed">>]
                 [] h = "UnicodeDecodeError" -> OnUnicodeDecodeError(file)
                 [] h = "FileNotFoundError"  -> OnFileNotFoundError(file)
                 [] h = "ValueError"         -> OnValueError(file, first)
  IN  [raised |-> r.raised, df |-> r.df, reads |-> r.reads, first |-> first]

\* ------------------------------------------------------------------- state
VARIABLES
  state_postals,    \* PrecinctData.state_postals: the regions requested
  frames,           \* read_precincts: the frames read so far, in list order
  reads,            \* for each region read: how read_precinct_csv went
  pc,               \* read_precincts: "reading", "returned" or "raised"
  error,            \* the exception that left read_precincts
  precinct_returns, \* PrecinctData.precinct_returns
  variable_meta,    \* Metadata.variable_meta: the documented variable names
  tables,           \* the frame objects made by Dataset.__init__, by dataverse
  table_ref,        \* Dataset.table: the frame object it refers to
  builds,           \* how many times Dataset(precinct_data, t) was constructed
  released,         \* how the last release() of the dataset of t ended
  written,          \* the release files on disk: <<dataverse, kind>>
  nops,             \* constructions and releases so far
  arg_df,           \* validate.main: the frame df passed to check and to Summary
  region,           \* validate.main: the state_postal argument
  expectations,     \* the reference tables the Expectations object holds
  report,           \* what the checks have printed, in order
  vpc,              \* validate.main: the next check, "checked", "done" or "raised"
  verror,           \* the exception that left check or Summary
  summary,          \* the Summary object constructed
  precincts,        \* _compare_aggregates: the rows of its argument precincts
  constituency_returns, \* the constituency returns on disk, by dataverse
  totals            \* what _compare_aggregates returned, and for which dataverse

avars == <<state_postals, frames, reads, pc, error>>

rvars == <<variable_meta, tables, table_ref, builds, released, written, nops>>

vvars == <<arg_df, region, expectations, report, vpc, verror, summary>>

cvars == <<precincts, constituency_returns, totals>>

vars == <<avars, precinct_returns, rvars, vvars, cvars>>

RowsRead == Len(Flatten([i \in 1..Len(frames) |-> frames[i].rows]))

Tags == Range(DATAVERSE_SHORT_NAMES)

\* How a release() that was not called, returned, or raised is recorded.
NotReleased == [state |-> "no", msg |-> <<>>]

\* No Dataset constructed.
ReleaseIdle ==
  /\ variable_meta = <<>>
  /\ tables = [t \in Tags |-> NoFrame]
  /\ table_ref = [t \in Tags |-> "none"]
  /\ builds = [t \in Tags |-> 0]
  /\ released = [t \in Tags |-> NotReleased]
  /\ written = {}
  /\ nops = 0

\* No table validated.
ValidateIdle ==
  /\ arg_df = NoFrame
  /\ region = ""
  /\ expectations = <<>>
  /\ report = <<>>
  /\ vpc = "idle"
  /\ verror = NoError
  /\ summary = NoFrame

\* _compare_aggregates not called.
NoTotals == [dataverse |-> "none", rows |-> {}, total |-> <<>>]

\* No constituency returns read.
ReconcileIdle ==
  /\ precincts = <<>>
  /\ constituency_returns = <<>>
  /\ totals = NoTotals

\* PrecinctData.__init__: the regions to read; nothing read yet.
AssembleInit ==
  /\ state_postals \in {[i \in 1..n |-> i] : n \in 0..MaxRegions}
  /\ frames = <<>>
  /\ reads = <<>>
  /\ pc = "reading"
  /\ error = NotRaised
  /\ precinct_returns = NoFrame
  /\ ReleaseIdle
  /\ ValidateIdle
  /\ ReconcileIdle

\* read_precincts, one element of the list comprehension: read the next
\* region's file, whatever the file system holds for it.
ReadRegion ==
  /\ pc = "reading"
  /\ Len(reads) < Len(state_postals)
  /\ \E file \in FilePool(MaxRows - RowsRead) :
       LET r == read_precinct_csv(file)
       IN  /\ reads' = Append(reads, [raised |-> r.raised, reads |-> r.reads,
                                      first |-> r.first])
           /\ IF r.raised = NotRaised
              THEN /\ frames' = Append(frames, r.df)
                   /\ UNCHANGED <<pc, error>>
              ELSE /\ pc' = "raised"
                   /\ error' = r.raised
                   /\ UNCHANGED frames
  /\ UNCHANGED <<state_postals, precinct_returns, rvars, vvars, cvars>>

\* read_precincts, after the last read: concat, select the columns, sort.
Combine ==
  /\ pc = "reading"
  /\ Len(reads) = Len(state_postals)
  /\ LET r == read_precincts(frames)
     IN  IF r.error = NoError
         THEN /\ precinct_returns' = r.frame
              /\ pc' = "returned"
              /\ UNCHANGED error
         ELSE /\ pc' = "raised"
              /\ error' = Raised(r.error, "read_precincts")
              /\ UNCHANGED precinct_returns
  /\ UNCHANGED <<state_postals, frames, reads, rvars, vvars, cvars>>

AssembleNext == ReadRegion \/ Combine

SpecAssemble == AssembleInit /\ [][AssembleNext]_vars

\* ------------------------------------------------------- Dataset, release
\* A variant of the selection that keeps the rows of the dataverse alone.
IsinMaskTargetOnly(df, dataverse) ==
  {k \in 1..Len(df.rows) : df.rows[k]["dataverse"] = dataverse}

\* precinct_returns['dataverse'].isin([dataverse, 'all']): the positions of
\* the rows selected.
IsinMask(df, dataverse) ==
  {k \in 1..Len(df.rows) : df.rows[k]["dataverse"] \in {dataverse, "all"}}

\* df.loc[mask]: the rows at the positions of the mask, with their labels.
Loc(df, mask) ==
  [columns |-> df.columns,
   index   |-> SelectIdx(df.index, mask, 1),
   rows    |-> SelectIdx(df.rows, mask, 1)]

\* A variant of .loc[mask] whose result is the frame object it was taken from.
LocObjectShared(source, fresh) == source

\* The frame object that holds the result of .loc[mask]: selecting by a
\* boolean mask makes a new object, never the one it was taken from.
LocObject(source, fresh) == fresh

\* del df[col]
DelColumn(df, col) ==
  [columns |-> SelectSeq(df.columns, LAMBDA c : c # col),
   index   |-> df.index,
   rows    |-> [k \in 1..Len(df.rows) |->
                 [c \in (DOMAIN df.rows[k]) \ {col} |-> df.rows[k][c]]]]

\* df.reset_index(inplace=True, drop=True)
reset_index(df) ==
  [columns |-> df.columns,
   index   |-> [k \in 1..Len(df.rows) |-> k - 1],
   rows    |-> df.rows]

\* The frame object of a name: PrecinctData.precinct_returns, or the object
\* made by the Dataset of a dataverse.
Obj(id) == IF id = "precinct_returns" THEN precinct_returns ELSE tables[id]

\* The documented variable lists of the model: the release columns, the same
\* without county_ansi, with a variable that is no column, and both.
ReleaseCols == SubSeq(PRECINCT_COLS, 1, Len(PRECINCT_COLS) - 1)

MetaPool ==
  { ReleaseCols,
    SelectSeq(ReleaseCols, LAMBDA c : c # "county_ansi"),
    ReleaseCols \o <<"notes">>,
    SelectSeq(ReleaseCols, LAMBDA c : c # "county_ansi") \o <<"notes">> }

\* A variant of check_documentation without the test of not_in_data.
check_documentation_docs_only(subset, meta) ==
  LET not_in_docs == Range(subset.columns) \ Range(meta)
  IN  IF not_in_docs # {}
      THEN <<[text |-> "Undocumented variables in", names |-> not_in_docs]>>
      ELSE <<>>

\* Dataset.check_documentation: the message built; a ValueError is raised with
\* it unless it is empty.  (The second part of the message prints not_in_docs.)
check_documentation(subset, meta) ==
  LET subset_cols == Range(subset.columns)
      doc_cols    == Range(meta)
      not_in_docs == subset_cols \ doc_cols
      not_in_data == doc_cols \ subset_cols
  IN  (IF not_in_docs # {}
       THEN <<[text |-> "Undocumented variables in", names |-> not_in_docs]>>
       ELSE <<>>)
      \o
      (IF not_in_data # {}
       THEN <<[text |-> "Documented variables missing from", names |-> not_in_docs]>>
       ELSE <<>>)

\* The files release() writes before it validates the documentation; the
\* feather and rda files are not written when pyarrow rejects the frame.
ReleaseFiles(arrow_ok) ==
  {"csv", "frequencies", "codebook", "release-notes", "coverage-notes", "Rd", "zip"}
  \cup (IF arrow_ok THEN {"feather", "rda"} ELSE {})

\* The combined datasets read_precincts returns within the bounds.
RECURSIVE FrameLists(_, _)
FrameLists(n, left) ==
  IF n = 0 THEN {<<>>}
  ELSE {<<>>} \cup
       UNION {{<<MkFrame(PRECINCT_COLS, seeds)>> \o rest :
                 rest \in FrameLists(n - 1, left - Len(seeds))} :
              seeds \in SeqsUpTo(RowSeeds, left)}

CombinedPool ==
  {read_precincts(fs).frame : fs \in FrameLists(MaxRegions, MaxRows) \ {<<>>}}

\* A PrecinctData whose read_precincts has returned, and the variable metadata
\* on disk; no Dataset constructed yet.
ReleaseInit ==
  /\ state_postals = <<>>
  /\ frames = <<>>
  /\ reads = <<>>
  /\ pc = "returned"
  /\ error = NotRaised
  /\ precinct_returns \in CombinedPool
  /\ variable_meta \in MetaPool
  /\ tables = [t \in Tags |-> NoFrame]
  /\ table_ref = [t \in Tags |-> "none"]
  /\ builds = [t \in Tags |-> 0]
  /\ released = [t \in Tags |-> NotReleased]
  /\ written = {}
  /\ nops = 0
  /\ ValidateIdle
  /\ ReconcileIdle

\* Dataset.__init__(precinct_data, t): subset the rows of the dataverse t or of
\* 'all' into a new frame, delete its dataverse column, keep it as self.table.
Construct(t) ==
  /\ pc = "returned"
  /\ nops < MaxOps
  /\ "dataverse" \in Range(precinct_returns.columns)
  /\ LET source == "precinct_returns"
         obj    == LocObject(source, t)
         subset == DelColumn(Loc(Obj(source), IsinMask(Obj(source), t)), "dataverse")
     IN  /\ precinct_returns' = IF obj = "precinct_returns" THEN subset ELSE precinct_returns
         /\ tables' = IF obj \in Tags THEN [tables EXCEPT ![obj] = subset] ELSE tables
         /\ table_ref' = [table_ref EXCEPT ![t] = obj]
  /\ builds' = [builds EXCEPT ![t] = @ + 1]
  /\ released' = [released EXCEPT ![t] = NotReleased]
  /\ nops' = nops + 1
  /\ UNCHANGED <<avars, vvars, cvars, variable_meta, written>>

\* Dataset.release(): write the CSV, reset the row labels of self.table in
\* place and write feather and rda (write_feather), write the frequencies, the
\* documentation and the zip archive, then check the documentation.
Release(t) ==
  /\ pc = "returned"
  /\ nops < MaxOps
  /\ table_ref[t] # "none"
  /\ \E arrow_ok \in BOOLEAN :
       LET obj   == table_ref[t]
           table == reset_index(Obj(obj))
           msg   == check_documentation(table, variable_meta)
       IN  /\ precinct_returns' = IF obj = "precinct_returns" THEN table ELSE precinct_returns
           /\ tables' = IF obj \in Tags THEN [tables EXCEPT ![obj] = table] ELSE tables
           /\ written' = written \cup {<<t, kind>> : kind \in ReleaseFiles(arrow_ok)}
           /\ released' = [released EXCEPT ![t] =
                             [state |-> IF msg = <<>> THEN "returned" ELSE "raised",
                              msg   |-> msg]]
  /\ nops' = nops + 1
  /\ UNCHANGED <<avars, vvars, cvars, variable_meta, table_ref, builds>>

\* The dataverses a run constructs datasets of.
Targets == {DATAVERSE_SHORT_NAMES[i] : i \in 1..MaxTargets}

ReleaseNext == \E t \in Targets : Construct(t) \/ Release(t)

Spec == ReleaseInit /\ [][ReleaseNext]_vars

\* ------------------------------------------------------------- validation
\* The reference tables an Expectations object holds.  races: the regions
\* with a race, by office (metadata/2016.yaml); district_numbers: the seats
\* by office and region, in file order (metadata/districts.yaml); state_ids
\* and county_ids: the gazetteers.
ReferenceTables ==
  [races |-> [office \in {"US Senate", "US House"} |->
                IF office = "US Senate" THEN {"AK"} ELSE {"AK", "AL"}],
   district_numbers |->
     << [office |-> "State Senate", seats |-> [r \in {"AK", "AL"} |-> IF r = "AK" THEN 1 ELSE 2]],
        [office |-> "State House",  seats |-> [r \in {"AK", "AL"} |-> 2]] >>,
   state_ids |->
     { [state |-> "Alaska",  state_postal |-> "AK", state_fips |-> "2", state_icpsr |-> "81"],
       [state |-> "Alabama", state_postal |-> "AL", state_fips |-> "1", state_icpsr |-> "41"] },
   county_ids |->
     { [state_postal |-> "AK", county_fips |-> "2013", county_name |-> "Aleutians East"],
       [state_postal |-> "AL", county_fips |-> "1001", county_name |-> "Autauga"] },
   meta |-> ReleaseCols]

\* The region arguments of the model: the default, a region of the reference
\* tables with a US Senate race, one without, and one they do not know.
RegionArgs == {"", "AK", "AL", "ZZ"}

\* The rows the model's validated tables are made of: the cells that differ
\* from the defaults of ValidRow.
CheckSeeds ==
  { [office |-> "US President", district |-> "statewide", candidate |-> "Doe",
     writein |-> "False", party |-> "democratic", votes |-> "100.0"],
    [office |-> "US Senate", district |-> "1", candidate |-> "Doe",
     writein |-> "False", party |-> "republican", votes |-> "100.5"],
    [office |-> "State Senate", district |-> "0", candidate |-> NaN,
     writein |-> "True", party |-> "democrat", votes |-> "-5"],
    [office |-> "State Senate", district |-> "2", candidate |-> NaN,
     writein |-> "False", party |-> NaN, votes |-> NaN],
    [office |-> "State House", district |-> "1", candidate |-> "Doe",
     writein |-> "False", party |-> "republican", votes |-> "100.0"],
    [office |-> "State House", district |-> "3", candidate |-> "Doe",
     writein |-> "False", party |-> "republican", votes |-> "100.0",
     dataverse |-> "federal"] }

\* A row of a state CSV that passes the identifier checks for AK.
ValidRow(cols, seed) ==
  [c \in Range(cols) |->
     IF c \in DOMAIN seed THEN seed[c]
     ELSE CASE c = "year"         -> "2016"
            [] c = "state"        -> "Alaska"
            [] c = "state_postal" -> "AK"
            [] c = "state_fips"   -> "2"
            [] c = "state_icpsr"  -> "81"
            [] c = "county_name"  -> "Aleutians East"
            [] c = "county_fips"  -> "2013"
            [] c = "precinct"     -> "Akutan"
            [] c = "mode"         -> "total"
            [] c = "dataverse"    -> "all"
            [] c = "foo"          -> "x"
            [] OTHER              -> "-"]

\* The column layouts of the validated tables: the canonical one; one without
\* county_ansi and with a column foo; one without the office column; one
\* without the mode column.
CheckLayouts ==
  { PRECINCT_COLS,
    SelectSeq(PRECINCT_COLS, LAMBDA c : c # "county_ansi") \o <<"foo">>,
    SelectSeq(PRECINCT_COLS, LAMBDA c : c # "office"),
    SelectSeq(PRECINCT_COLS, LAMBDA c : c # "mode") }

CheckFrame(cols, seeds) ==
  [columns |-> cols,
   index   |-> [k \in 1..Len(seeds) |-> k - 1],
   rows    |-> [k \in 1..Len(seeds) |-> ValidRow(cols, seeds[k])]]

\* What a check adds to the printed report: a description and the values, as
\* a multiset (print_ sorts the lines).
Finding(description, values) == [description |-> description, values |-> values]

SetBag(S) == [v \in S |-> 1]

\* Whether sorted() fails on the values: a str and a float (NaN) do not compare.
Unsortable(S) == NaN \in S /\ S # {NaN}

\* Expectations.print_ on an array or a Series: nothing when it is empty, a
\* TypeError when its values are strings and NaN and so cannot be sorted, else
\* the lines.  (The values of a numeric Series are floats, NaN among them.)
print_array(description, seq, numeric) ==
  IF seq = <<>> THEN [raised |-> NoError, findings |-> <<>>]
  ELSE IF ~numeric /\ Unsortable(Range(seq)) THEN [raised |-> "TypeError", findings |-> <<>>]
  ELSE [raised |-> NoError, findings |-> <<Finding(description, BagOf(seq))>>]

\* Expectations.print_ on a set or a list: the values as sorted strings.
print_set(description, S) ==
  IF S = {} THEN [raised |-> NoError, findings |-> <<>>]
  ELSE [raised |-> NoError, findings |-> <<Finding(description, SetBag(S))>>]

\* Two parts of a check in sequence: the second runs unless the first raised.
Then(a, b) ==
  IF a.raised # NoError THEN a
  ELSE [raised |-> b.raised, findings |-> a.findings \o b.findings]

Quiet == [raised |-> NoError, findings |-> <<>>]

Raise(e) == [raised |-> e, findings |-> <<>>]

Has(df, col) == col \in Range(df.columns)

Column(df, col) == [k \in 1..Len(df.rows) |-> df.rows[k][col]]

\* Series.unique(): the distinct values in the order of first appearance.
Unique(seq) == SelectIdx(seq, {i \in 1..Len(seq) : \A j \in 1..(i - 1) : seq[j] # seq[i]}, 1)

\* A variant of Expectations.columns that reports the missing columns only.
check_columns_missing_only(df, meta) ==
  print_set("Missing columns", (Range(meta) \cup {"dataverse"}) \ Range(df.columns))

\* Expectations.columns
check_columns(df, meta) ==
  LET expected_columns == Range(meta) \cup {"dataverse"}
      missing_columns == expected_columns \ Range(df.columns)
      unexpected_columns == Range(df.columns) \ expected_columns
  IN  Then(print_set("Missing columns", missing_columns),
           print_set("Unexpected columns", unexpected_columns))

\* The red-flag patterns a value contains, case ignored.
PatternsIn(v) ==
  CASE v = "Write-in"    -> {"write"}
    [] v = "Total Votes" -> {"total", "votes"}
    [] OTHER             -> {}

RECURSIVE Chain(_)
\* The parts of a check in sequence, up to the first that raises.
Chain(parts) ==
  IF parts = <<>> THEN Quiet ELSE Then(Head(parts), Chain(Tail(parts)))

\* Expectations.values: per column present, the values matching each pattern,
\* then the test of `mode`, which needs the column and no missing value in it
\* and never finds anything (a value without 'absentee', case ignored, does
\* not contain 'absentee').
check_values(df) ==
  LET patterns == <<"total", "registered", "cast", "votes", "ballot", "write">>
      one(col) ==
        IF ~Has(df, col) THEN Quiet
        ELSE Then(Chain([i \in 1..Len(patterns) |->
                     print_array("Check " \o col \o " values",
                                 Unique(SelectSeq(Column(df, col),
                                                  LAMBDA v : patterns[i] \in PatternsIn(v))),
                                 FALSE)]),
                  IF ~Has(df, "mode") THEN Raise("KeyError")
                  ELSE IF NaN \in Range(Column(df, "mode")) THEN Raise("TypeError")
                  ELSE Quiet)
  IN  Chain(<<one("office"), one("precinct"), one("district"), one("candidate")>>)

RECURSIVE StatesFrom(_, _, _)
\* The loop of Expectations.states inside its try: a column the table lacks
\* ends the loop with the KeyError printed.
StatesFrom(df, state_ids, cols) ==
  IF cols = <<>> THEN <<>>
  ELSE LET col == Head(cols)
       IN  IF ~Has(df, col) THEN <<Finding("KeyError", SetBag({col}))>>
           ELSE LET known == {r[col] : r \in state_ids}
                    seen  == Range(Column(df, col))
                IN  (IF seen \subseteq known THEN <<>>
                     ELSE <<Finding("Unexpected " \o col, SetBag(seen \ known))>>)
                    \o StatesFrom(df, state_ids, Tail(cols))

\* Expectations.states
check_states(df, valid, exp) ==
  LET state_ids == IF valid # "" THEN {r \in exp.state_ids : r.state_postal = valid}
                   ELSE exp.state_ids
  IN  [raised |-> NoError,
       findings |-> StatesFrom(df, state_ids,
                               <<"state", "state_postal", "state_fips", "state_icpsr">>)]

NotNull(df, col) == SelectSeq(Column(df, col), LAMBDA v : v # NaN)

\* Expectations.counties: the three findings; a column the table lacks ends
\* the check with the error logged.
check_counties(df, state_postal, exp) ==
  LET county_ids == IF state_postal # ""
                    THEN {r \in exp.county_ids : r.state_postal = state_postal}
                    ELSE exp.county_ids
      fips  == {r.county_fips : r \in county_ids}
      names == {r.county_name : r \in county_ids}
  IN  IF ~Has(df, "county_fips") THEN Quiet
      ELSE Then(print_set("Unexpected county_fips", Range(NotNull(df, "county_fips")) \ fips),
             IF ~Has(df, "county_name") THEN Quiet
             ELSE Then(print_set("Unexpected county_name",
                                 Range(NotNull(df, "county_name")) \ names),
                       print_set("Missing counties",
                                 names \ Range(NotNull(df, "county_name")))))

\* df.drop_duplicates(): the first of each set of equal rows.
drop_duplicates(df) ==
  LET keep == {i \in 1..Len(df.rows) : \A j \in 1..(i - 1) : df.rows[j] # df.rows[i]}
  IN  [columns |-> df.columns,
       index   |-> SelectIdx(df.index, keep, 1),
       rows    |-> SelectIdx(df.rows, keep, 1)]

\* df.loc[mask, cols]
LocCols(df, mask, cols) == Project(Loc(df, mask), cols)

\* str(x) for a district label: a missing one prints as nan.
AsStr(v) == IF v = NaN THEN "nan" ELSE v

\* A variant of valid_districts without the case of one seat.
ValidDistrictsFromOne(n_seats) ==
  {CASE x = 1 -> "1" [] x = 2 -> "2" [] x = 3 -> "3" [] OTHER -> "many" : x \in 1..n_seats}

\* valid_districts: ['0'] for one seat, else [str(x) for x in range(1, n_seats + 1)]
ValidDistricts(n_seats) ==
  IF n_seats = 1 THEN {"0"}
  ELSE {CASE x = 1 -> "1" [] x = 2 -> "2" [] x = 3 -> "3" [] OTHER -> "many" : x \in 1..n_seats}

\* A variant in which drop_duplicates(inplace=True) is called on the argument df.
InplaceReceiverArgument == "df"

\* The frame object unexpected_districts.drop_duplicates(inplace=True) is
\* called on: the frame made by observed.loc[...], local to the method.
InplaceReceiver == "unexpected_districts"

RECURSIVE DistrictsFrom(_, _, _)
\* The loop of Expectations.districts over the offices of district_numbers:
\* the result of the check and the argument df as the loop leaves it.
DistrictsFrom(df, state_postal, offices) ==
  IF offices = <<>> THEN [raised |-> NoError, findings |-> <<>>, df |-> df]
  ELSE
    LET office == Head(offices).office
        seats  == Head(offices).seats
    IN  IF state_postal \notin DOMAIN seats
        THEN [raised |-> "KeyError", findings |-> <<>>, df |-> df]
        ELSE
          LET observed == drop_duplicates(
                            Loc(df, {k \in 1..Len(df.rows) : df.rows[k]["office"] = office}))
              valid_districts == ValidDistricts(seats[state_postal])
              selected == LocCols(observed,
                                  {k \in 1..Len(observed.rows) :
                                     observed.rows[k]["district"] \notin valid_districts},
                                  <<"district">>)
              unexpected_districts ==
                IF InplaceReceiver = "unexpected_districts"
                THEN drop_duplicates(selected) ELSE selected
              df_after == IF InplaceReceiver = "df" THEN drop_duplicates(df) ELSE df
              printed == print_array("Unexpected " \o office \o " district",
                                     [k \in 1..Len(unexpected_districts.rows) |->
                                        AsStr(unexpected_districts.rows[k]["district"])],
                                     FALSE)
              rest == DistrictsFrom(df_after, state_postal, Tail(offices))
          IN  IF printed.raised # NoError
              THEN [raised |-> printed.raised, findings |-> <<>>, df |-> df_after]
              ELSE [raised |-> rest.raised,
                    findings |-> printed.findings \o rest.findings,
                    df |-> rest.df]

\* df.query('office == "<office>" & district != "statewide"')['district'].unique()
NotStatewide(df, office) ==
  Unique(SelectSeq([k \in 1..Len(df.rows) |-> df.rows[k]],
                   LAMBDA r : r["office"] = office /\ r["district"] # "statewide"))

\* Expectations.districts: the result of the check and the argument df as the
\* method leaves it.
check_districts(df, state_postal, exp) ==
  IF ~Has(df, "office") \/ ~Has(df, "district")
  THEN [raised |-> "UndefinedVariableError", findings |-> <<>>, df |-> df]
  ELSE
    LET labels(office) ==
          Unique([k \in 1..Len(NotStatewide(df, office)) |->
                    NotStatewide(df, office)[k]["district"]])
        senate == IF state_postal \in exp.races["US Senate"]
                  THEN print_array("Unexpected district for US Senate",
                                   labels("US Senate"), FALSE)
                  ELSE Quiet
        president == print_array("Unexpected district for US President",
                                 labels("US President"), FALSE)
        head == Then(senate, president)
        loop == DistrictsFrom(df, state_postal, exp.district_numbers)
    IN  IF head.raised # NoError
        THEN [raised |-> head.raised, findings |-> head.findings, df |-> df]
        ELSE [raised |-> loop.raised,
              findings |-> head.findings \o loop.findings,
              df |-> loop.df]

\* Expectations.offices
check_offices(df, state_postal, exp) ==
  IF ~Has(df, "office") THEN Raise("AttributeError")
  ELSE LET values == Range(Column(df, "office"))
       IN  Then(IF "US President" \notin values
                THEN print_set("Missing office", {"US President"}) ELSE Quiet,
                print_set("Missing offices",
                          {office \in DOMAIN exp.races :
                             state_postal \in exp.races[office] /\ office \notin values}))

\* A variant of Expectations.candidates that looks at every row, write-in or not.
check_candidates_any_null(df) ==
  IF ~Has(df, "candidate") \/ ~Has(df, "writein") THEN Raise("AttributeError")
  ELSE IF NaN \in Range(Column(df, "candidate"))
       THEN [raised |-> NoError,
             findings |-> <<Finding("Null candidates outside of write-ins", <<>>)>>]
       ELSE Quiet

\* Expectations.candidates: ~df.writein needs booleans.
check_candidates(df) ==
  IF ~Has(df, "candidate") \/ ~Has(df, "writein") THEN Raise("AttributeError")
  ELSE IF ~(Range(Column(df, "writein")) \subseteq {"True", "False"}) THEN Raise("TypeError")
  ELSE IF \E k \in 1..Len(df.rows) :
            df.rows[k]["writein"] = "False" /\ df.rows[k]["candidate"] = NaN
       THEN [raised |-> NoError,
             findings |-> <<Finding("Null candidates outside of write-ins", <<>>)>>]
       ELSE Quiet

\* Expectations.writein
check_writein(df) ==
  IF ~Has(df, "writein") THEN Raise("AttributeError")
  ELSE IF Range(Column(df, "writein")) \subseteq {"True", "False"} THEN Quiet
       ELSE print_array("writein", Unique(Column(df, "writein")), FALSE)

\* Expectations.parties
check_parties(df) ==
  IF ~Has(df, "party") THEN Raise("AttributeError")
  ELSE LET values == Range(Column(df, "party"))
       IN  Then(print_set("Missing party", {"republican", "democratic"} \ values),
                IF "democrat" \in values
                THEN print_set("Unexpected party", {"democrat"}) ELSE Quiet)

\* astype(np.float_) of a votes cell that is not missing, in tenths.
Tenths(v) ==
  CASE v = "100.0" -> 1000
    [] v = "100.5" -> 1005
    [] v = "-5"    -> -50
    [] v = "1"     -> 10
    [] v = "2"     -> 20

\* Whether float(v) % 1 != 0: a fraction, or a missing value (NaN % 1 is NaN,
\* and NaN != 0).  The remainder has the sign of the divisor: -5 % 1 is 0.
NotWhole(v) == v = NaN \/ Tenths(v) % 10 # 0

\* Expectations.votes
check_votes(df) ==
  IF ~Has(df, "votes") THEN Raise("AttributeError")
  ELSE print_array("Unexpected votes", SelectSeq(Column(df, "votes"), NotWhole), TRUE)

\* Expectations.dataverse
check_dataverse(df) ==
  IF ~Has(df, "dataverse") THEN Raise("AttributeError")
  ELSE LET expected_dataverses == {"president", "senate", "house", "state", "local", "all"}
       IN  print_array("Unexpected dataverse",
                       SelectSeq(Column(df, "dataverse"),
                                 LAMBDA v : v \notin expected_dataverses),
                       FALSE)

\* ----------------------------------------------------------- reconciliation
\* The characters of the names of the model.  (A string is a sequence of
\* characters here, so that the replacements below work on its text.)
Chars(name) ==
  CASE name = "Jane Doe"      -> <<"J","a","n","e"," ","D","o","e">>
    [] name = "Doe, Jane M."  -> <<"D","o","e",","," ","J","a","n","e"," ","M",".">>
    [] name = "Jane M. Doe"   -> <<"J","a","n","e"," ","M","."," ","D","o","e">>
    [] name = "Jane  Doe"     -> <<"J","a","n","e"," "," ","D","o","e">>
    [] name = "Roe, John"     -> <<"R","o","e",","," ","J","o","h","n">>
    [] name = "John Roe"      -> <<"J","o","h","n"," ","R","o","e">>
    [] name = "Doe"           -> <<"D","o","e">>
    [] name = "Estella "      -> <<"E","s","t","e","l","l","a"," ">>
    [] name = "Roque \"\"Rocky\"\"" ->
         <<"R","o","q","u","e"," ","\"","\"","R","o","c","k","y","\"","\"">>
    [] name = "Rocky"         -> <<"R","o","c","k","y">>
    [] name = "Total"         -> <<"T","o","t","a","l">>

\* [A-Z]
UpperCase ==
  {"A","B","C","D","E","F","G","H","I","J","K","L","M",
   "N","O","P","Q","R","S","T","U","V","W","X","Y","Z"}

RECURSIVE SplitOn(_, _)
\* The pieces of a text between the occurrences of a character.
SplitOn(text, c) ==
  IF \A i \in 1..Len(text) : text[i] # c THEN <<text>>
  ELSE LET i == CHOOSE i \in 1..Len(text) :
                  text[i] = c /\ \A j \in 1..(i - 1) : text[j] # c
       IN  <<SubSeq(text, 1, i - 1)>> \o SplitOn(SubSeq(text, i + 1, Len(text)), c)

RECURSIVE ReorderPieces(_)
\* str.replace('([^,]+), ([^,]+)', '\\2 \\1') on the pieces between commas:
\* a piece that is not empty and is followed by a comma, a space and at least
\* one more character that is no comma changes places with what follows up to
\* the next comma; the search goes on after the match.
ReorderPieces(pieces) ==
  IF Len(pieces) = 1 THEN pieces[1]
  ELSE LET first  == pieces[1]
           second == pieces[2]
       IN  IF first # <<>> /\ Len(second) >= 2 /\ second[1] = " "
           THEN Tail(second) \o <<" ">> \o first
                  \o (IF Len(pieces) = 2 THEN <<>>
                      ELSE <<",">> \o ReorderPieces(Tail(Tail(pieces))))
           ELSE first \o <<",">> \o ReorderPieces(Tail(pieces))

RECURSIVE CollapseInitial(_)
\* str.replace(' [A-Z]\\. ', ' ')
CollapseInitial(text) ==
  IF text = <<>> THEN <<>>
  ELSE IF /\ Len(text) >= 4
          /\ text[1] = " " /\ text[2] \in UpperCase /\ text[3] = "." /\ text[4] = " "
       THEN <<" ">> \o CollapseInitial(SubSeq(text, 5, Len(text)))
       ELSE <<Head(text)>> \o CollapseInitial(Tail(text))

RECURSIVE ReplaceAll(_, _, _)
\* str.replace(pattern, replacement) for a pattern without special characters.
ReplaceAll(text, pattern, replacement) ==
  IF text = <<>> THEN <<>>
  ELSE IF Len(text) >= Len(pattern) /\ SubSeq(text, 1, Len(pattern)) = pattern
       THEN replacement \o ReplaceAll(SubSeq(text, Len(pattern) + 1, Len(text)),
                                      pattern, replacement)
       ELSE <<Head(text)>> \o ReplaceAll(Tail(text), pattern, replacement)

\* A variant of the normalisation without the reordering of "last, first".
normalize_candidate_no_reorder(text) ==
  ReplaceAll(ReplaceAll(CollapseInitial(text), Chars("Estella "), <<>>),
             Chars("Roque \"\"Rocky\"\""), Chars("Rocky"))

\* The four replacements _compare_aggregates applies to a candidate name of
\* the constituency returns, in order.
normalize_candidate(text) ==
  ReplaceAll(ReplaceAll(CollapseInitial(ReorderPieces(SplitOn(text, ","))),
                        Chars("Estella "), <<>>),
             Chars("Roque \"\"Rocky\"\""), Chars("Rocky"))

\* A number cell of a frame: a value, or missing.
Num(n) == <<n>>

Missing == <<>>

RECURSIVE SumCells(_)
\* The sum of the cells of a column that are not missing.
SumCells(cells) ==
  IF cells = <<>> THEN 0
  ELSE (IF Head(cells) = Missing THEN 0 ELSE Head(cells)[1]) + SumCells(Tail(cells))

\* groupby(['state', 'candidate'], as_index=False).agg({column: sum}): one row
\* per key with the sum of the column; rows with a missing key are left out.
GroupSum(rows, column) ==
  LET keyed == SelectSeq(rows, LAMBDA r : r.state # NaN /\ r.candidate # Missing)
      keys  == {<<keyed[k].state, keyed[k].candidate>> : k \in 1..Len(keyed)}
  IN  {[state |-> key[1], candidate |-> key[2],
        votes |-> Num(SumCells([k \in 1..Len(SelectSeq(keyed, LAMBDA r :
                                   <<r.state, r.candidate>> = key)) |->
                       SelectSeq(keyed, LAMBDA r :
                                   <<r.state, r.candidate>> = key)[k][column]]))] :
       key \in keys}

\* A variant of the difference with the two columns exchanged.
votes_diff_reversed(precinct_votes, district_votes) ==
  IF precinct_votes = Missing \/ district_votes = Missing THEN Missing
  ELSE Num(district_votes[1] - precinct_votes[1])

\* totals.precinct_votes - totals.district_votes, missing when either is.
votes_diff(precinct_votes, district_votes) ==
  IF precinct_votes = Missing \/ district_votes = Missing THEN Missing
  ELSE Num(precinct_votes[1] - district_votes[1])

\* A variant of the merge that keeps only the keys of both sides.
merge_inner(precinct_totals, district_totals) ==
  {[state |-> p.state, candidate |-> p.candidate,
    precinct_votes |-> p.votes, district_votes |-> d.votes] :
     <<p, d>> \in {pd \in precinct_totals \X district_totals :
                     /\ pd[1].state = pd[2].state
                     /\ pd[1].candidate = pd[2].candidate}}

\* pd.merge(precinct_totals, district_totals, how='outer'), on the columns the
\* two have in common, state and candidate.  (The rows as a set: their order is
\* left out.)
merge(precinct_totals, district_totals) ==
  LET key(r) == <<r.state, r.candidate>>
  IN  {[state |-> p.state, candidate |-> p.candidate,
        precinct_votes |-> p.votes,
        district_votes |-> IF \E d \in district_totals : key(d) = key(p)
                           THEN (CHOOSE d \in district_totals : key(d) = key(p)).votes
                           ELSE Missing] : p \in precinct_totals}
      \cup
      {[state |-> d.state, candidate |-> d.candidate,
        precinct_votes |-> Missing, district_votes |-> d.votes] :
         d \in {d \in district_totals : \A p \in precinct_totals : key(p) # key(d)}}

\* The sum of a column of a set of rows, missing cells skipped.
RECURSIVE SumColumn(_, _)
SumColumn(rows, column) ==
  IF rows = {} THEN 0
  ELSE LET r == CHOOSE r \in rows : TRUE
       IN  (IF r[column] = Missing THEN 0 ELSE r[column][1])
             + SumColumn(rows \ {r}, column)

\* Summary._compare_aggregates(precincts, dataverse), given the rows of the
\* constituency returns of the dataverse: the rows of totals by key, and the
\* row 'Total' appended to them.  The candidate of a row is its text, Missing
\* for a missing one; the candidate cells of precincts are names of Chars.
compare_aggregates(precinct_rows, returns) ==
  LET present   == {precinct_rows[k].state : k \in 1..Len(precinct_rows)}
      kept      == SelectSeq(returns, LAMBDA d : d.year = 2016 /\ d.state \in present)
      districts == [k \in 1..Len(kept) |->
                      [state |-> kept[k].state,
                       candidate |-> normalize_candidate(Chars(kept[k].candidate)),
                       party |-> kept[k].party,
                       district_votes |-> kept[k].candidatevotes]]
      precincts_ == [k \in 1..Len(precinct_rows) |->
                      [state |-> precinct_rows[k].state,
                       candidate |-> IF precinct_rows[k].candidate = NaN THEN Missing
                                     ELSE Chars(precinct_rows[k].candidate),
                       party |-> precinct_rows[k].party,
                       precinct_votes |-> precinct_rows[k].votes]]
      merged    == merge(GroupSum(precincts_, "precinct_votes"),
                         GroupSum(districts, "district_votes"))
      with_diff(r) == [state |-> r.state, candidate |-> r.candidate,
                       precinct_votes |-> r.precinct_votes,
                       district_votes |-> r.district_votes,
                       votes_diff |-> votes_diff(r.precinct_votes, r.district_votes)]
      total_row == [state |-> NaN, candidate |-> Chars("Total"),
                    precinct_votes |-> Num(SumColumn(merged, "precinct_votes")),
                    district_votes |-> Num(SumColumn(merged, "district_votes"))]
  IN  [rows  |-> {with_diff(r) : r \in merged},
       total |-> with_diff(total_row)]

\* Summary.unique_values: per column present, the distinct values as sorted
\* strings (a set stands for the sorted list).
unique_values(df) ==
  LET columns == {"year", "special", "mode", "state_postal", "stage", "party",
                  "writein", "district", "dataverse"}
  IN  [col \in columns \cap Range(df.columns) |->
         {AsStr(v) : v \in Range(Column(df, col))}]

\* docs.write_frequencies(df): for every column but votes, the count of each of
\* its values, missing ones too.  (The rows as a set: their order is left out.)
write_frequencies(df) ==
  UNION {{[variable |-> col, value |-> v,
           count |-> Cardinality({k \in 1..Len(df.rows) : df.rows[k][col] = v})] :
            v \in Range(Column(df, col))} :
         col \in Range(df.columns) \ {"votes"}}

\* What leaves Summary.__init__ after the copy: write_frequencies cannot
\* concatenate when no column but votes is there; constituency_totals queries
\* office and _compare_aggregates reads state, then selects state, candidate,
\* party and the renamed votes.  The constituency returns under output/ are
\* taken to be on disk and to have their columns.
SummaryRaises(df) ==
  IF Range(df.columns) \subseteq {"votes"} THEN "ValueError"
  ELSE IF ~Has(df, "office") THEN "UndefinedVariableError"
  ELSE IF ~Has(df, "state") THEN "AttributeError"
  ELSE IF ~({"candidate", "party", "votes"} \subseteq Range(df.columns)) THEN "KeyError"
  ELSE NoError

\* The constituency returns on disk when a state's returns are validated, in
\* tenths of a vote like the votes of the table.
ConstituencyReturns ==
  [dataverse \in {"president", "senate", "house"} |->
     IF dataverse = "president"
     THEN << [year |-> 2016, state |-> "Alaska", candidate |-> "Doe",
              party |-> "democratic", candidatevotes |-> Num(2000)],
             [year |-> 2012, state |-> "Alaska", candidate |-> "Doe",
              party |-> "democratic", candidatevotes |-> Num(500)] >>
     ELSE IF dataverse = "senate"
     THEN << [year |-> 2016, state |-> "Alaska", candidate |-> "Roe, John",
              party |-> "republican", candidatevotes |-> Num(1000)] >>
     ELSE << >>]

\* self.df.query('office == "US <Office>"'), as the rows _compare_aggregates
\* works on, the votes in tenths.
OfficeRows(df, office) ==
  LET hits == SelectSeq([k \in 1..Len(df.rows) |-> df.rows[k]],
                        LAMBDA r : r["office"] = office)
  IN  [k \in 1..Len(hits) |->
         [state |-> hits[k]["state"], candidate |-> hits[k]["candidate"],
          party |-> hits[k]["party"],
          votes |-> IF hits[k]["votes"] = NaN THEN Missing
                    ELSE Num(Tenths(hits[k]["votes"]))]]

\* Summary.constituency_totals
constituency_totals(df, returns) ==
  [office \in {"president", "senate", "house"} |->
     compare_aggregates(
       OfficeRows(df, CASE office = "president" -> "US President"
                        [] office = "senate"    -> "US Senate"
                        [] office = "house"     -> "US House"),
       returns[office])]

\* validate.main after read_csv: a table, a region argument, and a new
\* Expectations object.
ValidateInit ==
  /\ state_postals = <<>>
  /\ frames = <<>>
  /\ reads = <<>>
  /\ pc = "returned"
  /\ error = NotRaised
  /\ precinct_returns = NoFrame
  /\ ReleaseIdle
  /\ arg_df \in {CheckFrame(cols, seeds) :
                   cols \in CheckLayouts, seeds \in SeqsUpTo(CheckSeeds, MaxCheckRows)}
  /\ region \in RegionArgs
  /\ expectations = ReferenceTables
  /\ report = <<>>
  /\ vpc = "columns"
  /\ verror = NoError
  /\ summary = NoFrame
  /\ precincts = <<>>
  /\ constituency_returns = ConstituencyReturns
  /\ totals = NoTotals

\* One call of Expectations.check: what it printed, and whether it returned
\* to the next call or raised.
CheckStep(name, next, r) ==
  /\ vpc = name
  /\ report' = report \o r.findings
  /\ vpc' = IF r.raised = NoError THEN next ELSE "raised"
  /\ verror' = r.raised
  /\ UNCHANGED <<avars, precinct_returns, rvars, cvars, region, expectations, summary>>

Columns ==
  /\ CheckStep("columns", "values", check_columns(arg_df, expectations.meta))
  /\ UNCHANGED arg_df

Values ==
  /\ CheckStep("values", "states", check_values(arg_df))
  /\ UNCHANGED arg_df

States ==
  /\ CheckStep("states", "counties", check_states(arg_df, region, expectations))
  /\ UNCHANGED arg_df

Counties ==
  /\ CheckStep("counties", "districts", check_counties(arg_df, region, expectations))
  /\ UNCHANGED arg_df

Districts ==
  LET r == check_districts(arg_df, region, expectations)
  IN  /\ CheckStep("districts", "offices", r)
      /\ arg_df' = r.df

Offices ==
  /\ CheckStep("offices", "candidates", check_offices(arg_df, region, expectations))
  /\ UNCHANGED arg_df

Candidates ==
  /\ CheckStep("candidates", "writein", check_candidates(arg_df))
  /\ UNCHANGED arg_df

Writein ==
  /\ CheckStep("writein", "parties", check_writein(arg_df))
  /\ UNCHANGED arg_df

Parties ==
  /\ CheckStep("parties", "votes", check_parties(arg_df))
  /\ UNCHANGED arg_df

Votes ==
  /\ CheckStep("votes", "checked", check_votes(arg_df))
  /\ UNCHANGED arg_df

\* Summary(df): a copy of df, its unique values, its frequencies and the totals
\* by office, or the error that left the constructor.
Summarize ==
  /\ vpc = "checked"
  /\ LET e == SummaryRaises(arg_df)
     IN  /\ verror' = e
         /\ vpc' = IF e = NoError THEN "done" ELSE "raised"
         /\ summary' = IF e = NoError
                       THEN [df |-> arg_df, values |-> unique_values(arg_df),
                             freqs |-> write_frequencies(arg_df),
                             totals |-> constituency_totals(arg_df, constituency_returns)]
                       ELSE summary
  /\ UNCHANGED <<avars, precinct_returns, rvars, cvars, arg_df, region, expectations, report>>

ValidateNext ==
  \/ Columns \/ Values \/ States \/ Counties \/ Districts \/ Offices
  \/ Candidates \/ Writein \/ Parties \/ Votes \/ Summarize

SpecValidate == ValidateInit /\ [][ValidateNext]_vars

\* ------------------------------------------- _compare_aggregates on its own
\* The rows of the argument precincts in the model: two of one candidate in one
\* state, a write-in row without candidate, and one of another state.
PrecinctSeeds ==
  { [state |-> "Alaska", candidate |-> "Jane Doe", party |-> "democratic", votes |-> Num(100)],
    [state |-> "Alaska", candidate |-> "Jane Doe", party |-> "democratic", votes |-> Num(30)],
    [state |-> "Alaska", candidate |-> NaN, party |-> NaN, votes |-> Num(5)],
    [state |-> "Alabama", candidate |-> "John Roe", party |-> "republican", votes |-> Num(7)] }

\* The rows of the constituency returns in the model: names as "last, first"
\* with and without a middle initial, a row of another year, a row of another
\* state, and a name with two spaces.
ReturnSeeds ==
  { [year |-> 2016, state |-> "Alaska", candidate |-> "Doe, Jane M.",
     party |-> "democratic", candidatevotes |-> Num(50)],
    [year |-> 2016, state |-> "Alaska", candidate |-> "Roe, John",
     party |-> "republican", candidatevotes |-> Num(20)],
    [year |-> 2012, state |-> "Alaska", candidate |-> "Doe, Jane M.",
     party |-> "democratic", candidatevotes |-> Num(40)],
    [year |-> 2016, state |-> "Alabama", candidate |-> "Roe, John",
     party |-> "republican", candidatevotes |-> Num(9)],
    [year |-> 2016, state |-> "Alaska", candidate |-> "Jane  Doe",
     party |-> "democratic", candidatevotes |-> Num(3)] }

\* The dataverses constituency_totals compares.
Compared == {"president", "senate", "house"}

\* Precinct rows of one office and the constituency returns on disk.
ReconcileInit ==
  /\ state_postals = <<>>
  /\ frames = <<>>
  /\ reads = <<>>
  /\ pc = "returned"
  /\ error = NotRaised
  /\ precinct_returns = NoFrame
  /\ ReleaseIdle
  /\ ValidateIdle
  /\ precincts \in SeqsUpTo(PrecinctSeeds, MaxPrecinctRows)
  /\ constituency_returns \in
       {[dataverse \in Compared |-> returns] : returns \in SeqsUpTo(ReturnSeeds, MaxReturnRows)}
  /\ totals = NoTotals

\* Summary._compare_aggregates(precincts, dataverse)
CompareAggregates(dataverse) ==
  /\ totals = NoTotals
  /\ LET r == compare_aggregates(precincts, constituency_returns[dataverse])
     IN  totals' = [dataverse |-> dataverse, rows |-> r.rows, total |-> r.total]
  /\ UNCHANGED <<avars, precinct_returns, rvars, vvars, precincts, constituency_returns>>

ReconcileNext == \E dataverse \in Compared : CompareAggregates(dataverse)

SpecReconcile == ReconcileInit /\ [][ReconcileNext]_vars

\* ------------------------------------------- properties of Dataset, release
\* A row without its dataverse cell.
Untagged(row) == [c \in (DOMAIN row) \ {"dataverse"} |-> row[c]]

\* The rows of the combined dataset a partition of tag t is specified to hold.
TaggedFor(df, t) ==
  SelectSeq(df.rows, LAMBDA r : r["dataverse"] = t \/ r["dataverse"] = "all")

\* C1: the table of Dataset(C, t) holds exactly the rows of C whose tag is t or
\* "all", in the order of C, each without the tag column and otherwise
\* unchanged; so every row of it comes from C and every row of C tagged "all"
\* is in the table of every target tag.
C1_Partition ==
  \A t \in Tags :
    table_ref[t] # "none" =>
      LET P   == Obj(table_ref[t])
          sel == TaggedFor(precinct_returns, t)
      IN  /\ P.columns = SelectSeq(PRECINCT_COLS, LAMBDA c : c # "dataverse")
          /\ P.rows = [k \in 1..Len(sel) |-> Untagged(sel[k])]
          /\ \A k \in 1..Len(precinct_returns.rows) :
               precinct_returns.rows[k]["dataverse"] = "all" =>
                 \E j \in 1..Len(P.rows) : P.rows[j] = Untagged(precinct_returns.rows[k])

\* C1 happens: the senate dataset was constructed from a combined dataset with
\* a row tagged "all" and a row tagged "president".
C1_Witness ==
  /\ table_ref["senate"] # "none"
  /\ \E k \in 1..Len(precinct_returns.rows) : precinct_returns.rows[k]["dataverse"] = "all"
  /\ \E k \in 1..Len(precinct_returns.rows) : precinct_returns.rows[k]["dataverse"] = "president"
  /\ Len(Obj(table_ref["senate"]).rows) < Len(precinct_returns.rows)

\* C5: no construction of a Dataset and no release changes the combined
\* dataset, and none changes the columns, the rows or the order of the rows of
\* the table of any tag: a Dataset constructed again for a tag, whatever was
\* constructed or released in between, has the rows it had before.
C5_Repeatable ==
  [][ /\ precinct_returns' = precinct_returns
      /\ \A t \in Tags :
           (table_ref[t] # "none" /\ table_ref'[t] # "none") =>
             /\ (Obj(table_ref[t]).rows)' = Obj(table_ref[t]).rows
             /\ (Obj(table_ref[t]).columns)' = Obj(table_ref[t]).columns ]_vars

\* C5 happens: a dataset was constructed, released, and constructed again.
C5_Witness ==
  \E t \in Tags :
    /\ builds[t] = 2
    /\ <<t, "csv">> \in written
    /\ released[t] = NotReleased
    /\ Obj(table_ref[t]).rows # <<>>

\* C9: release() ends with the ValueError of check_documentation if and only if
\* the set of columns of the table differs from the set of documented variable
\* names, and returns when the two sets are equal.
C9_DocumentationGate ==
  \A t \in Tags :
    released[t].state # "no" =>
      (released[t].state = "raised"
         <=> Range(Obj(table_ref[t]).columns) # Range(variable_meta))

\* C9 happens: release() raised for a table all of whose columns are
\* documented, because a documented variable is no column of it.
C9_Witness ==
  \E t \in Tags :
    /\ released[t].state = "raised"
    /\ Range(Obj(table_ref[t]).columns) \subseteq Range(variable_meta)

\* ------------------------------------------------- properties of assembly
\* The key the combined dataset is specified to be ordered by.
ReleaseKey == <<"dataverse", "state", "jurisdiction", "precinct", "candidate", "party">>

CanonicalSet == Range(PRECINCT_COLS)

\* A row of a region table on the canonical columns.
Canonical(row) == [c \in CanonicalSet |-> IF c \in DOMAIN row THEN row[c] ELSE NaN]

\* The rows of the region tables read, in list order, on the canonical columns.
RowsOf(fs) ==
  Flatten([i \in 1..Len(fs) |-> [k \in 1..Len(fs[i].rows) |-> Canonical(fs[i].rows[k])]])

KeysOf(rows) == [k \in 1..Len(rows) |-> KeyCodes(rows[k], ReleaseKey)]

\* C2: when read_precincts returns, the combined dataset has the canonical
\* columns in the canonical order, and its rows are, as a multiset, the rows of
\* all the region tables read, each on the canonical columns: none dropped,
\* none added, duplicates kept.
C2_RowsPreserved ==
  pc = "returned" =>
    /\ precinct_returns.columns = PRECINCT_COLS
    /\ Len(precinct_returns.rows) = RowsRead
    /\ BagOf(precinct_returns.rows) = BagOf(RowsOf(frames))

\* C2 happens: a run returned two equal rows, one of them read from a table
\* with a column that is not canonical.
C2_Witness ==
  /\ pc = "returned"
  /\ Len(precinct_returns.rows) = 2
  /\ precinct_returns.rows[1] = precinct_returns.rows[2]
  /\ \E i \in 1..Len(frames) : "foo" \in Range(frames[i].columns) /\ frames[i].rows # <<>>

\* C3: when read_precincts returns, every two adjacent rows of the combined
\* dataset are in non-decreasing lexicographic order of (dataverse, state,
\* jurisdiction, precinct, candidate, party), a missing value ordered after
\* every string.
C3_Sorted ==
  pc = "returned" =>
    \A k \in 1..(Len(precinct_returns.rows) - 1) :
      CodesLeq(KeyCodes(precinct_returns.rows[k], ReleaseKey),
               KeyCodes(precinct_returns.rows[k + 1], ReleaseKey))

\* C3 happens: the rows were read in an order that is not the sorted one.
C3_Witness ==
  /\ pc = "returned"
  /\ \E k \in 1..(Len(RowsOf(frames)) - 1) :
       CodesLess(KeyCodes(RowsOf(frames)[k + 1], ReleaseKey),
                 KeyCodes(RowsOf(frames)[k], ReleaseKey))

\* The orderings of the region list.
Orderings(n) == {f \in [1..n -> 1..n] : \A i, j \in 1..n : f[i] = f[j] => i = j}

Reordered(fs, f) == [i \in 1..Len(fs) |-> fs[f[i]]]

\* Two rows of different region tables share the sort key and differ in
\* another column.
CrossRegionTie(fs) ==
  \E i, j \in 1..Len(fs) :
    /\ i # j
    /\ \E a \in 1..Len(fs[i].rows), b \in 1..Len(fs[j].rows) :
         /\ KeyCodes(fs[i].rows[a], ReleaseKey) = KeyCodes(fs[j].rows[b], ReleaseKey)
         /\ Canonical(fs[i].rows[a]) # Canonical(fs[j].rows[b])

\* C4 as claimed: whatever the order of the region list, read_precincts yields
\* the same sequence of rows, also when rows share the sort key and differ in
\* other columns.
C4_OrderIndependent ==
  pc = "returned" =>
    \A f \in Orderings(Len(frames)) :
      read_precincts(Reordered(frames, f)).frame.rows = precinct_returns.rows

\* C4 amended: whatever the order of the region list, read_precincts yields the
\* same multiset of rows with the same sequence of sort keys, and the same
\* sequence of rows unless two rows of different region tables share the sort
\* key and differ in another column.
C4_OrderIndependentUpToTies ==
  pc = "returned" =>
    \A f \in Orderings(Len(frames)) :
      LET other == read_precincts(Reordered(frames, f)).frame.rows
      IN  /\ BagOf(other) = BagOf(precinct_returns.rows)
          /\ KeysOf(other) = KeysOf(precinct_returns.rows)
          /\ ~CrossRegionTie(frames) => other = precinct_returns.rows

\* C4 happens: two region tables with rows of different sort keys were read in
\* the order that is not the sorted one.
C4_Witness ==
  /\ pc = "returned"
  /\ ~CrossRegionTie(frames)
  /\ Len(frames) = 2
  /\ frames[1].rows # <<>> /\ frames[2].rows # <<>>
  /\ CodesLess(KeyCodes(frames[2].rows[1], ReleaseKey), KeyCodes(frames[1].rows[1], ReleaseKey))

\* C6 as claimed: with a region list that is not empty, a run in which no read
\* of a region file raised (absent files included) does not raise.
C6_MissingNeverHalts ==
  (/\ Len(state_postals) >= 1
   /\ \A i \in 1..Len(reads) : reads[i].raised = NotRaised)
  => pc # "raised"

\* C7: a typed read that fails with a coercion error is followed by one read of
\* the header alone, and the exception that leaves read_precinct_csv and
\* read_precincts is the ValueError of the typed read: nothing is returned and
\* no further region is read.  A typed read that fails with a
\* UnicodeDecodeError is followed by exactly one typed read under latin1.
C7_CoercionErrorReraised ==
  \A i \in 1..Len(reads) :
    /\ reads[i].first = "ValueError" =>
         /\ reads[i].reads = <<"typed", "header">>
         /\ reads[i].raised = Raised("ValueError", "typed")
         /\ i = Len(reads)
         /\ pc = "raised"
         /\ error = Raised("ValueError", "typed")
         /\ precinct_returns = NoFrame
    /\ reads[i].first = "UnicodeDecodeError" =>
         reads[i].reads = <<"typed", "typed_latin1">>

\* C7 happens: after a region read through the latin1 retry, the typed read of
\* the next region failed with a coercion error.
C7_Witness ==
  /\ Len(reads) = 2
  /\ reads[1].first = "UnicodeDecodeError" /\ reads[1].raised = NotRaised
  /\ reads[2].first = "ValueError"
  /\ pc = "raised"

\* ------------------------------------------------- properties of validation
\* The table has exactly the expected columns.
WellFormed == Range(arg_df.columns) = Range(expectations.meta) \cup {"dataverse"}

\* C8 -- Validation and reconciliation never raise: whatever the table and
\* the region argument (the default empty code and a region the seat table
\* does not list among them), no error leaves Expectations.check or Summary.
\* Stated for the tables with exactly the expected columns, which is where the
\* statement is least demanding.
C8_NeverRaises == WellFormed => verror = NoError

\* Rows of the argument that are equal to an earlier row.
HasDuplicateRows(df) ==
  \E i, j \in 1..Len(df.rows) : i < j /\ df.rows[i] = df.rows[j]

\* C10 -- Validation never mutates its input: no step of Expectations.check
\* and no construction of a Summary changes the rows, columns or values of
\* the table passed in, nor the reference tables of the Expectations object.
C10_InputUnchanged ==
  [][arg_df' = arg_df /\ expectations' = expectations]_vars

\* check and Summary have both run on a table with duplicate rows of an
\* unexpected district, so that the in-place drop_duplicates had rows to drop.
C10_Witness ==
  /\ vpc = "done"
  /\ summary # NoFrame
  /\ HasDuplicateRows(arg_df)
  /\ \E k \in 1..Len(report) :
       report[k] = Finding("Unexpected State Senate district", SetBag({"2"}))

\* The values of the findings of a description in the report, in order.
Reported(description) ==
  LET hits == SelectSeq(report, LAMBDA f : f.description = description)
  IN  [k \in 1..Len(hits) |-> hits[k].values]

\* The report has one finding of the description, listing exactly the values
\* of S, when S is not empty, and none when it is.
ReportsExactly(description, S) ==
  Reported(description) = IF S = {} THEN <<>> ELSE <<SetBag(S)>>

\* The calls of check after the call of a name has returned.
After(name) ==
  CASE name = "columns"    -> {"values", "states", "counties", "districts", "offices",
                               "candidates", "writein", "parties", "votes", "checked", "done"}
    [] name = "districts"  -> {"offices", "candidates", "writein", "parties", "votes",
                               "checked", "done"}
    [] name = "candidates" -> {"writein", "parties", "votes", "checked", "done"}
    [] name = "votes"      -> {"checked", "done"}

\* C11 -- The schema check reports exactly the set differences: once
\* Expectations.columns has returned, the report lists as missing exactly the
\* expected columns (the variable names and 'dataverse') the table lacks, as
\* unexpected exactly the columns of the table that are not expected, and
\* nothing when the two sets are equal.
C11_SchemaDifferences ==
  vpc \in After("columns") =>
    LET expected == Range(expectations.meta) \cup {"dataverse"}
        present  == Range(arg_df.columns)
    IN  /\ ReportsExactly("Missing columns", expected \ present)
        /\ ReportsExactly("Unexpected columns", present \ expected)

\* The schema check has run on a table that lacks only county_ansi and has
\* only the extra column foo, and reported {county_ansi} and {foo}.
C11_Witness ==
  /\ vpc \in After("columns")
  /\ (Range(expectations.meta) \cup {"dataverse"}) \ Range(arg_df.columns) = {"county_ansi"}
  /\ Range(arg_df.columns) \ (Range(expectations.meta) \cup {"dataverse"}) = {"foo"}
  /\ Reported("Missing columns") = <<SetBag({"county_ansi"})>>
  /\ Reported("Unexpected columns") = <<SetBag({"foo"})>>

\* The labels the report lists under a description.
Flagged(description) ==
  UNION {DOMAIN Reported(description)[k] : k \in 1..Len(Reported(description))}

\* The decimal numerals of 1..9.
Numerals == <<"1", "2", "3", "4", "5", "6", "7", "8", "9">>

\* The district labels that are valid for an office with n seats.
ValidLabels(n) == IF n = 1 THEN {"0"} ELSE {Numerals[x] : x \in 1..n}

\* C12 -- For every office of the seat table and the region of the run, once
\* the district check has returned, a row of that office is flagged under the
\* office if and only if its district label is outside the valid set ({"0"}
\* for one seat, {"1", ..., "n"} for n > 1 seats), and no label is flagged
\* under an office that no row of that office carries.
C12_DistrictsFlagged ==
  vpc \in After("districts") =>
    \A i \in 1..Len(expectations.district_numbers) :
      LET office  == expectations.district_numbers[i].office
          n       == expectations.district_numbers[i].seats[region]
          flagged == Flagged("Unexpected " \o office \o " district")
          of_office == {k \in 1..Len(arg_df.rows) : arg_df.rows[k]["office"] = office}
      IN  /\ \A k \in of_office :
               AsStr(arg_df.rows[k]["district"]) \in flagged
                 <=> arg_df.rows[k]["district"] \notin ValidLabels(n)
          /\ flagged \subseteq {AsStr(arg_df.rows[k]["district"]) : k \in of_office}

\* The district check has returned for a region with one State Senate seat and
\* a table with a State Senate row of district "0" and one of district "2":
\* "2" is flagged and "0" is not.
C12_Witness ==
  /\ vpc \in After("districts")
  /\ \E i \in 1..Len(expectations.district_numbers) :
       /\ expectations.district_numbers[i].office = "State Senate"
       /\ expectations.district_numbers[i].seats[region] = 1
  /\ \E k \in 1..Len(arg_df.rows) :
       arg_df.rows[k]["office"] = "State Senate" /\ arg_df.rows[k]["district"] = "0"
  /\ \E k \in 1..Len(arg_df.rows) :
       arg_df.rows[k]["office"] = "State Senate" /\ arg_df.rows[k]["district"] = "2"
  /\ Flagged("Unexpected State Senate district") = {"2"}

\* C13 -- For US President and for US Senate, whatever the region argument,
\* once the district check has returned every row of the office whose district
\* label is not "statewide" is flagged under the office, and no row of the
\* office whose label is "statewide" is.
C13_StatewideFlagged ==
  vpc \in After("districts") =>
    \A office \in {"US President", "US Senate"} :
      \A k \in 1..Len(arg_df.rows) :
        arg_df.rows[k]["office"] = office =>
          (AsStr(arg_df.rows[k]["district"]) \in Flagged("Unexpected district for " \o office)
             <=> arg_df.rows[k]["district"] # "statewide")

\* C14 -- Once the candidate check has returned, the report has its finding
\* if and only if some row of the table has a missing candidate and writein
\* false.
C14_NullCandidates ==
  vpc \in After("candidates") =>
    (Reported("Null candidates outside of write-ins") # <<>>
       <=> \E k \in 1..Len(arg_df.rows) :
             arg_df.rows[k]["candidate"] = NaN /\ arg_df.rows[k]["writein"] = "False")

\* The candidate check has returned with its finding for a table that has a
\* row without candidate and with writein false next to a write-in row without
\* candidate.
C14_Witness ==
  /\ vpc \in After("candidates")
  /\ Reported("Null candidates outside of write-ins") # <<>>
  /\ \E k \in 1..Len(arg_df.rows) :
       arg_df.rows[k]["candidate"] = NaN /\ arg_df.rows[k]["writein"] = "False"
  /\ \E k \in 1..Len(arg_df.rows) :
       arg_df.rows[k]["candidate"] = NaN /\ arg_df.rows[k]["writein"] = "True"

\* C15 -- Once the vote-count check has returned, it has reported every votes
\* value that is not a non-negative whole number and no other: 100.0 is not
\* reported; 100.5, a missing value and -5 are.
C15_VotesFlagged ==
  vpc \in After("votes") =>
    \A k \in 1..Len(arg_df.rows) :
      LET v == arg_df.rows[k]["votes"]
      IN  v \in Flagged("Unexpected votes")
            <=> ~(v # NaN /\ Tenths(v) >= 0 /\ Tenths(v) % 10 = 0)

\* C16 -- The report of a full run of Expectations.check includes the check of
\* the partition tag: every dataverse value of the table outside president,
\* senate, house, state, local and all is listed under 'Unexpected dataverse'.
C16_DataverseReported ==
  vpc \in After("votes") =>
    \A k \in 1..Len(arg_df.rows) :
      arg_df.rows[k]["dataverse"] \notin
          {"president", "senate", "house", "state", "local", "all"}
        => arg_df.rows[k]["dataverse"] \in Flagged("Unexpected dataverse")

\* C20 -- The check of the documentation is a gate on emission: when a
\* release() has raised because the columns of the table differ from the
\* documented variable names, no release file of that dataverse (CSV, feather,
\* rda, frequencies, documentation, zip) is on disk.
C20_NothingWrittenOnMismatch ==
  \A t \in Tags :
    released[t].state = "raised" =>
      \A kind \in ReleaseFiles(TRUE) : <<t, kind>> \notin written

\* --------------------------------------------- properties of reconciliation
\* The constituency returns _compare_aggregates was called with.
Returns == constituency_returns[totals.dataverse]

\* The rows of the returns of the current year and of a state of precincts.
InScope ==
  SelectSeq(Returns, LAMBDA d :
    d.year = 2016 /\ \E j \in 1..Len(precincts) : precincts[j].state = d.state)

\* The name a name of the returns is to be joined under when whitespace is
\* collapsed after the other three steps.
NameWithWhitespaceCollapsed(name) ==
  CASE name = "Doe, Jane M." -> "Jane Doe"
    [] name = "Roe, John"    -> "John Roe"
    [] name = "Jane  Doe"    -> "Jane Doe"

\* The same when whitespace is left as the other three steps leave it.
NameWithWhitespaceKept(name) ==
  CASE name = "Doe, Jane M." -> "Jane Doe"
    [] name = "Roe, John"    -> "John Roe"
    [] name = "Jane  Doe"    -> "Jane  Doe"

\* The row of totals of a state and a candidate name, if there is one.
RowsOfKey(state, name) ==
  {r \in totals.rows : r.state = state /\ r.candidate = Chars(name)}

\* Whether precincts has a row of the state and the candidate name.
InPrecincts(state, name) ==
  \E j \in 1..Len(precincts) :
    precincts[j].state = state /\ precincts[j].candidate = name

\* C17 (as stated) -- Every name of the returns is normalized by reordering
\* "last, first", collapsing a middle initial, stripping the known substrings
\* and collapsing whitespace: its votes are in the output row of the name so
\* normalized, together with the votes of the precinct rows of that candidate
\* and state.
C17_NormalizedWithWhitespace ==
  totals # NoTotals =>
    \A k \in 1..Len(InScope) :
      LET d    == InScope[k]
          name == NameWithWhitespaceCollapsed(d.candidate)
      IN  /\ \E r \in RowsOfKey(d.state, name) : r.district_votes # Missing
          /\ InPrecincts(d.state, name) =>
               \A r \in RowsOfKey(d.state, name) : r.precinct_votes # Missing

\* C17 (amended) -- Every name of the returns is normalized by reordering
\* "last, first", collapsing a middle initial between spaces and replacing
\* the known substrings, whitespace otherwise kept: "Doe, Jane M." is joined
\* with the candidate "Jane Doe" of the same state in one output row.
C17_Normalized ==
  totals # NoTotals =>
    \A k \in 1..Len(InScope) :
      LET d    == InScope[k]
          name == NameWithWhitespaceKept(d.candidate)
      IN  /\ \E r \in RowsOfKey(d.state, name) : r.district_votes # Missing
          /\ InPrecincts(d.state, name) =>
               \A r \in RowsOfKey(d.state, name) : r.precinct_votes # Missing

\* The returns name "Doe, Jane M." and the precinct rows of "Jane Doe" of the
\* same state are in one output row, and no row has the name as it was.
C17_Witness ==
  /\ totals # NoTotals
  /\ \E k \in 1..Len(InScope) :
       InScope[k].candidate = "Doe, Jane M." /\ InScope[k].state = "Alaska"
  /\ InPrecincts("Alaska", "Jane Doe")
  /\ \E r \in RowsOfKey("Alaska", "Jane Doe") :
       r.precinct_votes # Missing /\ r.district_votes # Missing
  /\ RowsOfKey("Alaska", "Doe, Jane M.") = {}

\* The votes of the precinct rows of a state and a candidate text.
PrecinctVotesOf(state, text) ==
  LET hits == SelectSeq(precincts, LAMBDA p :
                /\ p.state = state
                /\ p.candidate # NaN
                /\ Chars(p.candidate) = text)
  IN  [k \in 1..Len(hits) |-> hits[k].votes]

\* The votes of the rows in scope of the returns of a state and a candidate
\* text, the names as "first last".
ReturnVotesOf(state, text) ==
  LET hits == SelectSeq(InScope, LAMBDA d :
                d.state = state /\ Chars(NameWithWhitespaceKept(d.candidate)) = text)
  IN  [k \in 1..Len(hits) |-> hits[k].candidatevotes]

\* The keys of the output, as a sequence without repetition.
RECURSIVE AsSeq(_)
AsSeq(S) ==
  IF S = {} THEN <<>>
  ELSE LET x == CHOOSE x \in S : TRUE IN <<x>> \o AsSeq(S \ {x})

\* C18 -- In the output every row of a key holds, where it has one, the sum of
\* the precinct votes of the key and the sum of the votes of the returns of the
\* key (year 2016, states of precincts), and their difference; the row 'Total'
\* holds the sums of the two columns over the rows of the keys and the
\* difference of these sums.
C18_Totals ==
  totals # NoTotals =>
    /\ \A r \in totals.rows :
         /\ r.precinct_votes # Missing =>
              r.precinct_votes = Num(SumCells(PrecinctVotesOf(r.state, r.candidate)))
         /\ r.district_votes # Missing =>
              r.district_votes = Num(SumCells(ReturnVotesOf(r.state, r.candidate)))
         /\ (r.precinct_votes # Missing /\ r.district_votes # Missing) =>
              r.votes_diff = Num(r.precinct_votes[1] - r.district_votes[1])
    /\ LET rows == AsSeq(totals.rows)
           p == SumCells([k \in 1..Len(rows) |-> rows[k].precinct_votes])
           d == SumCells([k \in 1..Len(rows) |-> rows[k].district_votes])
       IN  /\ totals.total.candidate = Chars("Total")
           /\ totals.total.precinct_votes = Num(p)
           /\ totals.total.district_votes = Num(d)
           /\ totals.total.votes_diff = Num(p - d)

\* Precinct votes 100 and votes 50 of the returns of one key: the row of the
\* key and the row 'Total' both hold 100, 50 and the difference 50.
C18_Witness ==
  /\ totals # NoTotals
  /\ totals.rows = {[state |-> "Alaska", candidate |-> Chars("Jane Doe"),
                     precinct_votes |-> Num(100), district_votes |-> Num(50),
                     votes_diff |-> Num(50)]}
  /\ totals.total.precinct_votes = Num(100)
  /\ totals.total.district_votes = Num(50)
  /\ totals.total.votes_diff = Num(50)

\* The keys of the aggregated precinct rows.
PrecinctKeys ==
  {<<precincts[j].state, Chars(precincts[j].candidate)>> :
     j \in {j \in 1..Len(precincts) : precincts[j].candidate # NaN}}

\* The keys of the aggregated returns in scope, the names as "first last".
ReturnKeys ==
  {<<InScope[k].state, Chars(NameWithWhitespaceKept(InScope[k].candidate))>> :
     k \in 1..Len(InScope)}

\* C19 -- The join is an outer join that loses no key and corrects none: every
\* key of the aggregated precinct rows or of the aggregated, normalized
\* returns is the key of exactly one output row and no row has another key; a
\* row has a total of a side exactly when the key is a key of that side, and a
\* missing difference when a side is missing.
C19_OuterJoin ==
  totals # NoTotals =>
    /\ \A key \in PrecinctKeys \cup ReturnKeys :
         Cardinality({r \in totals.rows : <<r.state, r.candidate>> = key}) = 1
    /\ \A r \in totals.rows :
         /\ <<r.state, r.candidate>> \in PrecinctKeys \cup ReturnKeys
         /\ r.precinct_votes # Missing <=> <<r.state, r.candidate>> \in PrecinctKeys
         /\ r.district_votes # Missing <=> <<r.state, r.candidate>> \in ReturnKeys
         /\ (r.precinct_votes = Missing \/ r.district_votes = Missing) =>
              r.votes_diff = Missing

\* A key of the precinct rows only and a key of the returns only: each has
\* its row, with the total of the other side and the difference missing.
C19_Witness ==
  /\ totals # NoTotals
  /\ \E r \in totals.rows :
       /\ <<r.state, r.candidate>> \in PrecinctKeys \ ReturnKeys
       /\ r.precinct_votes # Missing /\ r.district_votes = Missing
       /\ r.votes_diff = Missing
  /\ \E r \in totals.rows :
       /\ <<r.state, r.candidate>> \in ReturnKeys \ PrecinctKeys
       /\ r.precinct_votes = Missing /\ r.district_votes # Missing
       /\ r.votes_diff = Missing

\* C21 -- Reconciliation conserves the precinct votes: the precinct votes of
\* the row 'Total' are the sum of the votes of all the rows of precincts, the
\* rows without candidate (write-in rows) among them.
C21_VotesConserved ==
  totals # NoTotals =>
    totals.total.precinct_votes =
      Num(SumCells([k \in 1..Len(precincts) |-> precincts[k].votes]))

====
